---- MODULE Spec2Model ----
(***************************************************************************)
(* Lifecycle and concurrency model of blur-windows:                        *)
(*   - the desktop-shell command handlers of                               *)
(*     demos/tauri_demo/src-tauri/src/lib.rs (specification Spec), and     *)
(*   - the safe wrapper library blur-windows-rs/src/safe.rs together with  *)
(*     examples/basic.rs (specification SpecLib).                          *)
(* The native engine is an external collaborator: every native call is a   *)
(* step whose return value is chosen nondeterministically among the values *)
(* the C ABI allows (null / non-null handle, any error code).              *)
(*                                                                         *)
(* Option<T> values are modelled as sequences: <<>> is None, <<v>> is      *)
(* Some(v).  A Mutex is modelled by its holder: <<>> unlocked, <<t>> held  *)
(* by thread t.  Native handles are resource identities 1..Max; the null   *)
(* pointer is Null.                                                        *)
(***************************************************************************)
EXTENDS Integers, Sequences, FiniteSets, TLC

\* ------------------------------------------------------------ bounds
NumThreads == 2
MaxWindows == 2
MaxSystems == 2

\* ------------------------------------------------------------ constants
Null == 0

Ok == 0
NotInitialized == -1
InvalidHandle == -2
InvalidParameter == -3
D3D11Failed == -4
CaptureFailed == -5
Unknown == -99

BlurErrorCode ==
    {Ok, NotInitialized, InvalidHandle, InvalidParameter, D3D11Failed,
     CaptureFailed, Unknown}

Threads == 1..NumThreads
WindowHandles == 1..MaxWindows
SystemHandles == 1..MaxSystems

None == <<>>
Some(v) == <<v>>
IsSome(o) == o # <<>>
Unwrap(o) == o[1]

VARIABLES
    \* the shell's managed BlurState and its two mutexes
    sysSlot, windowSlot, sysMutex, windowMutex,
    \* one record per command-dispatch thread
    pc, cmd, args, local, snap, calls, failed, result,
    \* the shell application has left run()
    exited,
    \* the native engine, as far as this layer can tell
    sysState, winState, winParent, lateCalls, nullCalls,
    \* the previous start_blur invocation, if no stop_blur ran since
    prevStart,
    \* how far the shell's native calls on each window handle have come
    proto,
    \* the library's client: owned values and the example's main
    libSystems, libWindows, libRunning, libLast,
    mainPc, mainSystem, mainWindow, mainI, mainRet

shellVars ==
    <<sysSlot, windowSlot, sysMutex, windowMutex, pc, cmd, args, local, snap,
      calls, failed, result, exited, prevStart, proto>>
nativeVars == <<sysState, winState, winParent, lateCalls, nullCalls>>
libVars ==
    <<libSystems, libWindows, libRunning, libLast, mainPc, mainSystem,
      mainWindow, mainI, mainRet>>
vars == <<shellVars, nativeVars, libVars>>

\* ------------------------------------------------------------ native engine

\* The handle a successful blur_init / blur_create_window hands out: the
\* engine never hands out a handle that names another live or dead resource.
FreshSystems ==
    LET free == {s \in SystemHandles : sysState[s] = "free"}
    IN  {s \in free : \A r \in free : s <= r}

FreshWindows ==
    LET free == {w \in WindowHandles : winState[w] = "free"}
    IN  {w \in free : \A v \in free : w <= v}

\* blur_init returns a null handle or a new system handle.
blur_init_results == {Null} \cup FreshSystems

\* blur_create_window returns a null handle or a new window handle.
blur_create_window_results == {Null} \cup FreshWindows

\* Effect on the engine of blur_init returning sys.
NativeInit(sys) ==
    /\ sysState' = IF sys = Null THEN sysState
                   ELSE [sysState EXCEPT ![sys] = "live"]

\* Effect on the engine of blur_create_window(sys, ..) returning window.
NativeCreateWindow(sys, window) ==
    /\ winState' = IF window = Null THEN winState
                   ELSE [winState EXCEPT ![window] = "live"]
    /\ winParent' = IF window = Null THEN winParent
                    ELSE [winParent EXCEPT ![window] = sys]

\* Bookkeeping of native calls cs issued on window handles: a call on a
\* destroyed handle, or with a null handle, is remembered.
NoteWindowCalls(cs) ==
    /\ lateCalls' = lateCalls \cup
          {cs[i] : i \in {j \in 1..Len(cs) :
                             /\ cs[j][2] \in WindowHandles
                             /\ winState[cs[j][2]] = "destroyed"}}
    /\ nullCalls' = nullCalls \cup
          {cs[i][1] : i \in {j \in 1..Len(cs) : cs[j][2] = Null}}

\* Effect on the engine of blur_destroy_window(window).
NativeDestroyWindow(window) ==
    /\ NoteWindowCalls(<< <<"blur_destroy_window", window>> >>)
    /\ winState' = IF window \in WindowHandles
                   THEN [winState EXCEPT ![window] = "destroyed"]
                   ELSE winState

\* Effect on the engine of blur_shutdown(sys).
NativeShutdown(sys) ==
    /\ lateCalls' = IF sys \in SystemHandles /\ sysState[sys] = "shutdown"
                    THEN lateCalls \cup {<<"blur_shutdown", sys>>}
                    ELSE lateCalls
    /\ nullCalls' = IF sys = Null THEN nullCalls \cup {"blur_shutdown"}
                    ELSE nullCalls
    /\ sysState' = IF sys \in SystemHandles
                   THEN [sysState EXCEPT ![sys] = "shutdown"]
                   ELSE sysState



\* ------------------------------------------------------------ shell variant
\* demos/tauri_demo/src-tauri/src/lib.rs

Commands ==
    {"start_blur", "stop_blur", "update_blur_parameters",
     "update_noise_parameters", "update_rain_parameters", "get_blur_fps"}

UpdateCommands ==
    {"update_blur_parameters", "update_noise_parameters",
     "update_rain_parameters"}

\* The optional arguments of each command (an argument is in args[t] when
\* the invocation supplies Some value for it).
Params(c) ==
    CASE c = "start_blur" -> {"effect_type"}
      [] c = "update_blur_parameters" ->
             {"effect_type", "strength", "param", "color"}
      [] c = "update_noise_parameters" ->
             {"intensity", "scale", "speed", "noise_type"}
      [] c = "update_rain_parameters" ->
             {"intensity", "drop_speed", "refraction", "trail_length",
              "min_size", "max_size"}
      [] OTHER -> {}

\* The first program point of each command.
Entry(c) ==
    CASE c = "start_blur" -> "start_lock_sys"
      [] c = "stop_blur" -> "stop_lock"
      [] c = "get_blur_fps" -> "fps_lock"
      [] OTHER -> "update_lock"

\* run(): .manage(BlurState { sys: Mutex::new(None), window: Mutex::new(None) })
ShellInit ==
    /\ sysSlot = None
    /\ windowSlot = None
    /\ sysMutex = None
    /\ windowMutex = None
    /\ pc = [t \in Threads |-> "idle"]
    /\ cmd = [t \in Threads |-> "none"]
    /\ args = [t \in Threads |-> {}]
    /\ local = [t \in Threads |-> None]
    /\ snap = [t \in Threads |-> <<>>]
    /\ calls = [t \in Threads |-> <<>>]
    /\ failed = [t \in Threads |-> FALSE]
    /\ result = [t \in Threads |-> "none"]
    /\ exited = FALSE
    /\ prevStart = None
    /\ proto = [w \in WindowHandles |-> "none"]

NativeInitState ==
    /\ sysState = [s \in SystemHandles |-> "free"]
    /\ winState = [w \in WindowHandles |-> "free"]
    /\ winParent = [w \in WindowHandles |-> Null]
    /\ lateCalls = {}
    /\ nullCalls = {}

LibIdle ==
    /\ libSystems = {}
    /\ libWindows = {}
    /\ libRunning = {}
    /\ libLast = [op |-> "none", arg |-> <<>>, wasRunning |-> FALSE, calls |-> <<>>,
                result |-> <<"none">>]
    /\ mainPc = "off"
    /\ mainSystem = None
    /\ mainWindow = None
    /\ mainI = 0
    /\ mainRet = "none"

Init == ShellInit /\ NativeInitState /\ LibIdle

historyVars == <<prevStart, proto>>
slotVars == <<sysSlot, windowSlot>>
mutexVars == <<sysMutex, windowMutex>>

Goto(t, label) == pc' = [pc EXCEPT ![t] = label]

\* The order in which the shell is to call the engine on one window handle:
\* blur_create_window, blur_start, any setters and blur_get_fps, blur_stop,
\* blur_destroy_window. ProtocolStep gives the phase a handle in phase ph
\* is in after a call of fn.
ProtocolStep(ph, fn) ==
    CASE ph = "none" /\ fn = "blur_create_window" -> "created"
      [] ph = "created" /\ fn = "blur_start" -> "started"
      [] ph = "started" /\ fn = "blur_stop" -> "stopped"
      [] ph = "stopped" /\ fn = "blur_destroy_window" -> "destroyed"
      [] /\ ph = "started"
         /\ fn \notin {"blur_create_window", "blur_start", "blur_stop",
                       "blur_destroy_window"} -> "started"
      [] OTHER -> "violated"

RECURSIVE ProtocolAfter(_, _)
ProtocolAfter(pr, cs) ==
    IF cs = <<>> THEN pr
    ELSE LET c == Head(cs) IN
         ProtocolAfter(IF c[2] \in WindowHandles
                       THEN [pr EXCEPT ![c[2]] = ProtocolStep(@, c[1])]
                       ELSE pr,
                       Tail(cs))

\* The shell issues the native calls cs.
NoteProtocol(cs) == proto' = ProtocolAfter(proto, cs)

\* The webview invokes a command; the handler starts on thread t.
Invoke(t) ==
    /\ pc[t] = "idle"
    /\ ~exited
    /\ \E c \in Commands :
          /\ cmd' = [cmd EXCEPT ![t] = c]
          /\ Goto(t, Entry(c))
    /\ UNCHANGED <<slotVars, mutexVars, args, local, snap, calls, failed,
                   result, exited, historyVars, nativeVars, libVars>>

\* A handler whose sys guard outlives it.
ReturnFrom_LeaksSysGuard(t) ==
    /\ windowMutex' = IF windowMutex = Some(t) THEN None ELSE windowMutex
    /\ sysMutex' = sysMutex
    /\ Goto(t, "idle")
    /\ cmd' = [cmd EXCEPT ![t] = "none"]
    /\ args' = [args EXCEPT ![t] = {}]
    /\ local' = [local EXCEPT ![t] = None]
    /\ snap' = [snap EXCEPT ![t] = <<>>]
    /\ calls' = [calls EXCEPT ![t] = <<>>]
    /\ failed' = [failed EXCEPT ![t] = FALSE]
    /\ result' = [result EXCEPT ![t] = "none"]

\* The handler returns: its MutexGuards are dropped and its frame is gone.
ReturnFrom(t) ==
    /\ windowMutex' = IF windowMutex = Some(t) THEN None ELSE windowMutex
    /\ sysMutex' = IF sysMutex = Some(t) THEN None ELSE sysMutex
    /\ Goto(t, "idle")
    /\ cmd' = [cmd EXCEPT ![t] = "none"]
    /\ args' = [args EXCEPT ![t] = {}]
    /\ local' = [local EXCEPT ![t] = None]
    /\ snap' = [snap EXCEPT ![t] = <<>>]
    /\ calls' = [calls EXCEPT ![t] = <<>>]
    /\ failed' = [failed EXCEPT ![t] = FALSE]
    /\ result' = [result EXCEPT ![t] = "none"]

\* state.window.lock().unwrap(): blocks while another thread holds the guard.
LockWindow(t) ==
    /\ windowMutex = None
    /\ windowMutex' = Some(t)

\* state.sys.lock().unwrap()
LockSys(t) ==
    /\ sysMutex = None
    /\ sysMutex' = Some(t)

\* ---- start_blur

StartBlur_LockSys(t) ==
    /\ pc[t] = "start_lock_sys"
    /\ LockSys(t)
    /\ Goto(t, "start_lock_window")
    /\ UNCHANGED <<slotVars, windowMutex, cmd, args, local, snap, calls,
                   failed, result, exited, historyVars, nativeVars, libVars>>

StartBlur_LockWindow(t) ==
    /\ pc[t] = "start_lock_window"
    /\ LockWindow(t)
    /\ Goto(t, "start_check")
    /\ UNCHANGED <<slotVars, sysMutex, cmd, args, local, snap, calls,
                   failed, result, exited, historyVars, nativeVars, libVars>>

\* start_blur without its early return: the slot is not looked at.
StartBlur_Check_NoEarlyReturn(t) ==
    /\ pc[t] = "start_check"
    /\ \E a \in SUBSET Params("start_blur") : args' = [args EXCEPT ![t] = a]
    /\ snap' = [snap EXCEPT ![t] = <<sysSlot, windowSlot>>]
    /\ Goto(t, IF sysSlot = None THEN "start_init" ELSE "start_create")
    /\ UNCHANGED <<slotVars, mutexVars, cmd, local, calls, failed, result,
                   exited, historyVars, nativeVars, libVars>>

\* start_blur applying the effect selector to the session it finds.
StartBlur_Check_ApplyEffect(t) ==
    /\ pc[t] = "start_check"
    /\ snap' = [snap EXCEPT ![t] = <<sysSlot, windowSlot>>]
    /\ \E a \in SUBSET Params("start_blur") :
          /\ args' = [args EXCEPT ![t] = a]
          /\ IF IsSome(windowSlot) /\ "effect_type" \in a
             THEN LET c == <<"blur_set_effect_type", Unwrap(windowSlot)>> IN
                     /\ calls' = [calls EXCEPT ![t] = Append(@, c)]
                     /\ NoteWindowCalls(<<c>>)
                     /\ NoteProtocol(<<c>>)
             ELSE UNCHANGED <<calls, lateCalls, nullCalls, proto>>
    /\ IF IsSome(windowSlot)
       THEN /\ result' = [result EXCEPT ![t] = "Ok"]
            /\ Goto(t, "start_ret")
       ELSE /\ result' = result
            /\ Goto(t, IF sysSlot = None THEN "start_init" ELSE "start_create")
    /\ UNCHANGED <<slotVars, mutexVars, cmd, local, failed, exited,
                   prevStart, sysState, winState, winParent, libVars>>

\* start_blur holding the window guard for the check only.
StartBlur_Check_ReleasesWindow(t) ==
    /\ pc[t] = "start_check"
    /\ \E a \in SUBSET Params("start_blur") : args' = [args EXCEPT ![t] = a]
    /\ snap' = [snap EXCEPT ![t] = <<sysSlot, windowSlot>>]
    /\ windowMutex' = None
    /\ IF IsSome(windowSlot)
       THEN /\ result' = [result EXCEPT ![t] = "Ok"]
            /\ Goto(t, "start_ret")
       ELSE /\ result' = result
            /\ Goto(t, IF sysSlot = None THEN "start_init" ELSE "start_create")
    /\ UNCHANGED <<slotVars, sysMutex, cmd, local, calls, failed, exited,
                   historyVars, nativeVars, libVars>>

\* if window_lock.is_some() { return Ok(()); }  and  if sys_lock.is_none()
StartBlur_Check(t) ==
    /\ pc[t] = "start_check"
    /\ \E a \in SUBSET Params("start_blur") : args' = [args EXCEPT ![t] = a]
    /\ snap' = [snap EXCEPT ![t] = <<sysSlot, windowSlot>>]
    /\ IF IsSome(windowSlot)
       THEN /\ result' = [result EXCEPT ![t] = "Ok"]
            /\ Goto(t, "start_ret")
       ELSE /\ result' = result
            /\ Goto(t, IF sysSlot = None THEN "start_init" ELSE "start_create")
    /\ UNCHANGED <<slotVars, mutexVars, cmd, local, calls, failed, exited,
                   historyVars, nativeVars, libVars>>

\* let sys = blur_init(&sys_opts); if sys.is_null() { return Err(..) }
\* *sys_lock = Some(sys);
StartBlur_Init(t) ==
    /\ pc[t] = "start_init"
    /\ \E sys \in blur_init_results :
          /\ NativeInit(sys)
          /\ calls' = [calls EXCEPT ![t] = Append(@, <<"blur_init", sys>>)]
          /\ IF sys = Null
             THEN /\ result' = [result EXCEPT ![t] = "Err"]
                  /\ sysSlot' = sysSlot
                  /\ Goto(t, "start_ret")
             ELSE /\ result' = result
                  /\ sysSlot' = Some(sys)
                  /\ Goto(t, "start_create")
    /\ UNCHANGED <<windowSlot, mutexVars, cmd, args, local, snap, failed,
                   exited, historyVars, winState, winParent, lateCalls,
                   nullCalls, libVars>>

\* start_blur emptying the system slot when no window could be created.
StartBlur_Create_ClearsSys(t) ==
    /\ pc[t] = "start_create"
    /\ \E window \in blur_create_window_results :
          /\ NativeCreateWindow(Unwrap(sysSlot), window)
          /\ NoteProtocol(<< <<"blur_create_window", window>> >>)
          /\ calls' = [calls EXCEPT
                          ![t] = Append(@, <<"blur_create_window", window>>)]
          /\ IF window # Null
             THEN /\ local' = [local EXCEPT ![t] = Some(window)]
                  /\ result' = result
                  /\ sysSlot' = sysSlot
                  /\ Goto(t, "start_start")
             ELSE /\ local' = local
                  /\ result' = [result EXCEPT ![t] = "Err"]
                  /\ sysSlot' = None
                  /\ Goto(t, "start_ret")
    /\ UNCHANGED <<windowSlot, mutexVars, cmd, args, snap, failed, exited,
                   prevStart, sysState, lateCalls, nullCalls, libVars>>

\* let sys = sys_lock.unwrap();
\* let window = blur_create_window(sys, null_mut(), &opts);
StartBlur_Create(t) ==
    /\ pc[t] = "start_create"
    /\ \E window \in blur_create_window_results :
          /\ NativeCreateWindow(Unwrap(sysSlot), window)
          /\ NoteProtocol(<< <<"blur_create_window", window>> >>)
          /\ calls' = [calls EXCEPT
                          ![t] = Append(@, <<"blur_create_window", window>>)]
          /\ IF window # Null
             THEN /\ local' = [local EXCEPT ![t] = Some(window)]
                  /\ result' = result
                  /\ Goto(t, "start_start")
             ELSE /\ local' = local
                  /\ result' = [result EXCEPT ![t] = "Err"]
                  /\ Goto(t, "start_ret")
    /\ UNCHANGED <<slotVars, mutexVars, cmd, args, snap, failed, exited,
                   prevStart, sysState, lateCalls, nullCalls, libVars>>

\* blur_start(window);   (the returned code is dropped)
StartBlur_Start(t) ==
    /\ pc[t] = "start_start"
    /\ LET c == <<"blur_start", Unwrap(local[t])>> IN
          /\ calls' = [calls EXCEPT ![t] = Append(@, c)]
          /\ NoteWindowCalls(<<c>>)
          /\ NoteProtocol(<<c>>)
    /\ \E code \in BlurErrorCode :
          failed' = [failed EXCEPT ![t] = @ \/ code # Ok]
    /\ Goto(t, "start_effect")
    /\ UNCHANGED <<slotVars, mutexVars, cmd, args, local, snap, result,
                   exited, prevStart, sysState, winState, winParent,
                   libVars>>

\* if let Some(t) = effect_type { blur_set_effect_type(window, t); }
StartBlur_Effect(t) ==
    /\ pc[t] = "start_effect"
    /\ IF "effect_type" \in args[t]
       THEN LET c == <<"blur_set_effect_type", Unwrap(local[t])>> IN
               /\ calls' = [calls EXCEPT ![t] = Append(@, c)]
               /\ NoteWindowCalls(<<c>>)
               /\ NoteProtocol(<<c>>)
               /\ \E code \in BlurErrorCode :
                     failed' = [failed EXCEPT ![t] = @ \/ code # Ok]
       ELSE UNCHANGED <<calls, failed, lateCalls, nullCalls, proto>>
    /\ Goto(t, "start_publish")
    /\ UNCHANGED <<slotVars, mutexVars, cmd, args, local, snap, result,
                   exited, prevStart, sysState, winState, winParent,
                   libVars>>

\* start_blur that never stores the window it created.
StartBlur_Publish_Forgotten(t) ==
    /\ pc[t] = "start_publish"
    /\ result' = [result EXCEPT ![t] = "Ok"]
    /\ Goto(t, "start_ret")
    /\ UNCHANGED <<slotVars, mutexVars, cmd, args, local, snap, calls, failed,
                   exited, historyVars, nativeVars, libVars>>

\* *window_lock = Some(window); Ok(())
StartBlur_Publish(t) ==
    /\ pc[t] = "start_publish"
    /\ windowSlot' = local[t]
    /\ result' = [result EXCEPT ![t] = "Ok"]
    /\ Goto(t, "start_ret")
    /\ UNCHANGED <<sysSlot, mutexVars, cmd, args, local, snap, calls, failed,
                   exited, historyVars, nativeVars, libVars>>

\* The native window-create calls among a sequence of calls, and whether
\* one of them returned a window.
CreateCalls(cs) ==
    {i \in 1..Len(cs) : cs[i][1] = "blur_create_window"}

\* What a start_blur invocation did about window creation: whether it found
\* the window slot empty, the number of blur_create_window calls it made and
\* whether one of them returned a window.
CreateOutcome(cs, seen) ==
    [empty |-> seen[2] = None,
     n |-> Cardinality(CreateCalls(cs)),
     created |-> \E i \in CreateCalls(cs) : cs[i][2] # Null]

\* The program points at which a command has computed its result and is
\* about to return.
RetPcs == {"start_ret", "stop_ret", "update_ret", "fps_ret"}

StartBlur_Return(t) ==
    /\ pc[t] = "start_ret"
    /\ ReturnFrom(t)
    /\ prevStart' = Some(CreateOutcome(calls[t], snap[t]))
    /\ UNCHANGED <<slotVars, exited, proto, nativeVars, libVars>>


\* ---- stop_blur

StopBlur_Lock(t) ==
    /\ pc[t] = "stop_lock"
    /\ LockWindow(t)
    /\ Goto(t, "stop_take")
    /\ UNCHANGED <<slotVars, sysMutex, cmd, args, local, snap, calls,
                   failed, result, exited, historyVars, nativeVars, libVars>>

\* stop_blur reading the slot without taking the session out of it.
StopBlur_Take_Peek(t) ==
    /\ pc[t] = "stop_take"
    /\ snap' = [snap EXCEPT ![t] = <<sysSlot, windowSlot>>]
    /\ local' = [local EXCEPT ![t] = windowSlot]
    /\ IF IsSome(windowSlot)
       THEN /\ result' = result
            /\ Goto(t, "stop_stop")
       ELSE /\ result' = [result EXCEPT ![t] = "Unit"]
            /\ Goto(t, "stop_ret")
    /\ prevStart' = None
    /\ UNCHANGED <<slotVars, mutexVars, cmd, args, calls, failed, exited,
                   proto, nativeVars, libVars>>

\* if let Some(window) = window_lock.take() { .. }
StopBlur_Take(t) ==
    /\ pc[t] = "stop_take"
    /\ snap' = [snap EXCEPT ![t] = <<sysSlot, windowSlot>>]
    /\ local' = [local EXCEPT ![t] = windowSlot]
    /\ windowSlot' = None
    /\ IF IsSome(windowSlot)
       THEN /\ result' = result
            /\ Goto(t, "stop_stop")
       ELSE /\ result' = [result EXCEPT ![t] = "Unit"]
            /\ Goto(t, "stop_ret")
    /\ prevStart' = None
    /\ UNCHANGED <<sysSlot, mutexVars, cmd, args, calls, failed, exited,
                   proto, nativeVars, libVars>>

\* stop_blur going straight to the destruction of the session.
StopBlur_Stop_Skipped(t) ==
    /\ pc[t] = "stop_stop"
    /\ Goto(t, "stop_destroy")
    /\ UNCHANGED <<slotVars, mutexVars, cmd, args, local, snap, calls, failed,
                   result, exited, historyVars, nativeVars, libVars>>

\* blur_stop(window);   (the returned code is dropped)
StopBlur_Stop(t) ==
    /\ pc[t] = "stop_stop"
    /\ LET c == <<"blur_stop", Unwrap(local[t])>> IN
          /\ calls' = [calls EXCEPT ![t] = Append(@, c)]
          /\ NoteWindowCalls(<<c>>)
          /\ NoteProtocol(<<c>>)
    /\ \E code \in BlurErrorCode :
          failed' = [failed EXCEPT ![t] = @ \/ code # Ok]
    /\ Goto(t, "stop_destroy")
    /\ UNCHANGED <<slotVars, mutexVars, cmd, args, local, snap, result,
                   exited, prevStart, sysState, winState, winParent,
                   libVars>>

\* stop_blur that stops the session and never destroys it.
StopBlur_Destroy_Forgotten(t) ==
    /\ pc[t] = "stop_destroy"
    /\ result' = [result EXCEPT ![t] = "Unit"]
    /\ Goto(t, "stop_ret")
    /\ UNCHANGED <<slotVars, mutexVars, cmd, args, local, snap, calls, failed,
                   exited, historyVars, nativeVars, libVars>>

\* blur_destroy_window(window);
StopBlur_Destroy(t) ==
    /\ pc[t] = "stop_destroy"
    /\ calls' = [calls EXCEPT
                    ![t] = Append(@, <<"blur_destroy_window",
                                       Unwrap(local[t])>>)]
    /\ NativeDestroyWindow(Unwrap(local[t]))
    /\ NoteProtocol(<< <<"blur_destroy_window", Unwrap(local[t])>> >>)
    /\ result' = [result EXCEPT ![t] = "Unit"]
    /\ Goto(t, "stop_ret")
    /\ UNCHANGED <<slotVars, mutexVars, cmd, args, local, snap, failed,
                   exited, prevStart, sysState, winParent, libVars>>

StopBlur_Return(t) ==
    /\ pc[t] = "stop_ret"
    /\ ReturnFrom(t)
    /\ UNCHANGED <<slotVars, exited, historyVars, nativeVars, libVars>>

\* ---- update_blur_parameters, update_noise_parameters,
\* ---- update_rain_parameters

\* The native setter calls of each update command on window w, in the
\* order of the source, for the supplied arguments a.
Setters(c) ==
    CASE c = "update_blur_parameters" ->
             << <<{"effect_type"}, "blur_set_effect_type">>,
                <<{"strength"}, "blur_set_strength">>,
                <<{"param"}, "blur_set_blur_param">>,
                <<{"color"}, "blur_set_tint_color">> >>
      [] c = "update_noise_parameters" ->
             << <<{"intensity"}, "blur_set_noise_intensity">>,
                <<{"scale"}, "blur_set_noise_scale">>,
                <<{"speed"}, "blur_set_noise_speed">>,
                <<{"noise_type"}, "blur_set_noise_type">> >>
      [] c = "update_rain_parameters" ->
             << <<{"intensity"}, "blur_set_rain_intensity">>,
                <<{"drop_speed"}, "blur_set_rain_drop_speed">>,
                <<{"refraction"}, "blur_set_rain_refraction">>,
                <<{"trail_length"}, "blur_set_rain_trail_length">>,
                <<{"min_size", "max_size"}, "blur_set_rain_drop_size">> >>
      [] OTHER -> <<>>

RECURSIVE SetterCallsFrom(_, _, _, _)
SetterCallsFrom(ss, i, a, w) ==
    IF i > Len(ss) THEN <<>>
    ELSE (IF ss[i][1] \subseteq a THEN << <<ss[i][2], w>> >> ELSE <<>>)
         \o SetterCallsFrom(ss, i + 1, a, w)

\* The setter calls when one drop-size bound alone is enough for
\* blur_set_rain_drop_size to be called.
SetterCalls_EitherBound(c, a, w) ==
    SetterCallsFrom(Setters(c), 1,
                    IF a \cap {"min_size", "max_size"} # {}
                    THEN a \cup {"min_size", "max_size"} ELSE a,
                    w)

SetterCalls(c, a, w) == SetterCallsFrom(Setters(c), 1, a, w)

\* The native setter that receives argument p of update command c.
SetterOf(c, p) ==
    LET i == CHOOSE j \in 1..Len(Setters(c)) : p \in Setters(c)[j][1]
    IN  Setters(c)[i][2]

Update_Lock(t) ==
    /\ pc[t] = "update_lock"
    /\ LockWindow(t)
    /\ Goto(t, "update_read")
    /\ UNCHANGED <<slotVars, sysMutex, cmd, args, local, snap, calls,
                   failed, result, exited, historyVars, nativeVars, libVars>>

\* if let Some(window) = *window_lock
Update_Read(t) ==
    /\ pc[t] = "update_read"
    /\ snap' = [snap EXCEPT ![t] = <<sysSlot, windowSlot>>]
    /\ local' = [local EXCEPT ![t] = windowSlot]
    /\ Goto(t, "update_apply")
    /\ UNCHANGED <<slotVars, mutexVars, cmd, args, calls, failed, result, exited,
                   historyVars, nativeVars, libVars>>

\* The setters applied without the `if let`: with an empty slot the calls
\* are made on a null handle.
ApplySetters_Unchecked(t) ==
    \E a \in SUBSET Params(cmd[t]) :
    LET cs == SetterCalls(cmd[t], a,
                          IF IsSome(local[t]) THEN Unwrap(local[t]) ELSE Null)
    IN  /\ args' = [args EXCEPT ![t] = a]
        /\ calls' = [calls EXCEPT ![t] = @ \o cs]
        /\ NoteWindowCalls(cs)
        /\ NoteProtocol(cs)
        /\ failed' = [failed EXCEPT ![t] = FALSE]
        /\ result' = [result EXCEPT ![t] = "Unit"]
        /\ Goto(t, "update_ret")
        /\ UNCHANGED <<slotVars, mutexVars, cmd, local, snap, exited,
                       prevStart, sysState, winState, winParent, libVars>>

\* The body of the `if let`: one native setter per supplied argument, every
\* returned code dropped.
ApplySetters(t) ==
    \E a \in SUBSET Params(cmd[t]) :
    LET cs == IF IsSome(local[t])
              THEN SetterCalls(cmd[t], a, Unwrap(local[t]))
              ELSE <<>>
    IN  /\ args' = [args EXCEPT ![t] = a]
        /\ calls' = [calls EXCEPT ![t] = @ \o cs]
        /\ NoteWindowCalls(cs)
        /\ NoteProtocol(cs)
        /\ \E f \in BOOLEAN :
              /\ f => cs # <<>>
              /\ failed' = [failed EXCEPT ![t] = f]
        /\ result' = [result EXCEPT ![t] = "Unit"]
        /\ Goto(t, "update_ret")
        /\ UNCHANGED <<slotVars, mutexVars, cmd, local, snap, exited,
                       prevStart, sysState, winState, winParent, libVars>>

UpdateBlurParameters_Apply(t) ==
    /\ pc[t] = "update_apply"
    /\ cmd[t] = "update_blur_parameters"
    /\ ApplySetters(t)

UpdateNoiseParameters_Apply(t) ==
    /\ pc[t] = "update_apply"
    /\ cmd[t] = "update_noise_parameters"
    /\ ApplySetters(t)

UpdateRainParameters_Apply(t) ==
    /\ pc[t] = "update_apply"
    /\ cmd[t] = "update_rain_parameters"
    /\ ApplySetters(t)

Update_Return(t) ==
    /\ pc[t] = "update_ret"
    /\ ReturnFrom(t)
    /\ UNCHANGED <<slotVars, exited, historyVars, nativeVars, libVars>>

\* ---- get_blur_fps

GetBlurFps_Lock(t) ==
    /\ pc[t] = "fps_lock"
    /\ LockWindow(t)
    /\ Goto(t, "fps_read")
    /\ UNCHANGED <<slotVars, sysMutex, cmd, args, local, snap, calls,
                   failed, result, exited, historyVars, nativeVars, libVars>>

\* if let Some(window) = *window_lock
GetBlurFps_Read(t) ==
    /\ pc[t] = "fps_read"
    /\ snap' = [snap EXCEPT ![t] = <<sysSlot, windowSlot>>]
    /\ local' = [local EXCEPT ![t] = windowSlot]
    /\ Goto(t, "fps_call")
    /\ UNCHANGED <<slotVars, mutexVars, cmd, args, calls, failed, result,
                   exited, historyVars, nativeVars, libVars>>

\* unsafe { blur_get_fps(window) }  else  0.0
GetBlurFps_Call(t) ==
    /\ pc[t] = "fps_call"
    /\ IF IsSome(local[t])
       THEN LET c == <<"blur_get_fps", Unwrap(local[t])>> IN
               /\ calls' = [calls EXCEPT ![t] = Append(@, c)]
               /\ NoteWindowCalls(<<c>>)
               /\ NoteProtocol(<<c>>)
               /\ result' = [result EXCEPT ![t] = "Fps"]
       ELSE /\ result' = [result EXCEPT ![t] = "Zero"]
            /\ UNCHANGED <<calls, lateCalls, nullCalls, proto>>
    /\ Goto(t, "fps_ret")
    /\ UNCHANGED <<slotVars, mutexVars, cmd, args, local, snap, failed,
                   exited, prevStart, sysState, winState, winParent,
                   libVars>>

GetBlurFps_Return(t) ==
    /\ pc[t] = "fps_ret"
    /\ ReturnFrom(t)
    /\ UNCHANGED <<slotVars, exited, historyVars, nativeVars, libVars>>

\* ---- run

\* The event loop of run() ends and the managed BlurState is dropped.
\* BlurState has no Drop implementation and its fields are raw pointers:
\* dropping it issues no native call.
AppExit ==
    /\ ~exited
    /\ \A t \in Threads : pc[t] = "idle"
    /\ exited' = TRUE
    /\ UNCHANGED <<slotVars, mutexVars, pc, cmd, args, local, snap, calls,
                   failed, result, historyVars, nativeVars, libVars>>

Next ==
    \/ \E t \in Threads : Invoke(t)
    \/ \E t \in Threads : StartBlur_LockSys(t)
    \/ \E t \in Threads : StartBlur_LockWindow(t)
    \/ \E t \in Threads : StartBlur_Check(t)
    \/ \E t \in Threads : StartBlur_Init(t)
    \/ \E t \in Threads : StartBlur_Create(t)
    \/ \E t \in Threads : StartBlur_Start(t)
    \/ \E t \in Threads : StartBlur_Effect(t)
    \/ \E t \in Threads : StartBlur_Publish(t)
    \/ \E t \in Threads : StartBlur_Return(t)
    \/ \E t \in Threads : StopBlur_Lock(t)
    \/ \E t \in Threads : StopBlur_Take(t)
    \/ \E t \in Threads : StopBlur_Stop(t)
    \/ \E t \in Threads : StopBlur_Destroy(t)
    \/ \E t \in Threads : StopBlur_Return(t)
    \/ \E t \in Threads : Update_Lock(t)
    \/ \E t \in Threads : Update_Read(t)
    \/ \E t \in Threads : UpdateBlurParameters_Apply(t)
    \/ \E t \in Threads : UpdateNoiseParameters_Apply(t)
    \/ \E t \in Threads : UpdateRainParameters_Apply(t)
    \/ \E t \in Threads : Update_Return(t)
    \/ \E t \in Threads : GetBlurFps_Lock(t)
    \/ \E t \in Threads : GetBlurFps_Read(t)
    \/ \E t \in Threads : GetBlurFps_Call(t)
    \/ \E t \in Threads : GetBlurFps_Return(t)
    \/ AppExit

Spec == Init /\ [][Next]_vars

\* The steps of the command running on thread t.
Step(t) ==
    \/ StartBlur_LockSys(t)
    \/ StartBlur_LockWindow(t)
    \/ StartBlur_Check(t)
    \/ StartBlur_Init(t)
    \/ StartBlur_Create(t)
    \/ StartBlur_Start(t)
    \/ StartBlur_Effect(t)
    \/ StartBlur_Publish(t)
    \/ StartBlur_Return(t)
    \/ StopBlur_Lock(t)
    \/ StopBlur_Take(t)
    \/ StopBlur_Stop(t)
    \/ StopBlur_Destroy(t)
    \/ StopBlur_Return(t)
    \/ Update_Lock(t)
    \/ Update_Read(t)
    \/ UpdateBlurParameters_Apply(t)
    \/ UpdateNoiseParameters_Apply(t)
    \/ UpdateRainParameters_Apply(t)
    \/ Update_Return(t)
    \/ GetBlurFps_Lock(t)
    \/ GetBlurFps_Read(t)
    \/ GetBlurFps_Call(t)
    \/ GetBlurFps_Return(t)

\* Every native call returns and every thread keeps being scheduled; a
\* thread blocked in lock() gets a mutex that is released again and again.
\* Nothing obliges a command to be invoked.
SpecFair == Spec /\ \A t \in Threads : SF_vars(Step(t))


\* ------------------------------------------------------------ library
\* blur-windows-rs/src/lib.rs, blur-windows-rs/src/safe.rs

\* An embedded terminator byte, and some other byte.
NUL == 0
Bytes == {NUL, 123}

\* The strings handed to set_pipeline.
MaxJsonLen == 2
JsonStrings == UNION {[1..n -> Bytes] : n \in 0..MaxJsonLen}

High == 0
Balanced == 1
Performance == 2
Minimal == 3
BlurQualityPreset == {High, Balanced, Performance, Minimal}

\* blur_get_last_error returns a null pointer or a C string.
blur_get_last_error_results == {None, Some("engine error")}

\* The pointer blur_get_last_error returned: null, or the address of the
\* string.
CStrPtr(err) == IF IsSome(err) THEN 1 ELSE Null

ownerVars == <<libSystems, libWindows, libRunning>>
mainVars == <<mainPc, mainSystem, mainWindow, mainI, mainRet>>

\* if code == BlurErrorCode::Ok { Ok(()) } else { Err(code) }
CodeResult(code) == IF code = Ok THEN <<"Ok">> ELSE <<"Err", code>>

\* new without its null check: a BlurSystem is built around whatever
\* blur_init returned.
BlurSystem_new_NoNullCheck(sys, err) ==
    /\ NativeInit(sys)
    /\ libLast' = [op |-> "new", arg |-> <<>>, wasRunning |-> FALSE,
                   calls |-> << <<"blur_init", sys>> >>,
                   result |-> <<"Ok", sys>>]
    /\ libSystems' = libSystems \cup {sys}
    /\ UNCHANGED <<libWindows, libRunning, winState, winParent, lateCalls,
                   nullCalls>>

\* new reporting every failure with the generic message, the engine's
\* last-error string unread.
BlurSystem_new_GenericOnly(sys, err) ==
    /\ NativeInit(sys)
    /\ IF sys = Null
       THEN /\ libLast' =
                 [op |-> "new", arg |-> <<>>, wasRunning |-> FALSE,
                  calls |-> << <<"blur_init", sys>> >>,
                  result |-> <<"Err", "Failed to initialize blur system">>]
            /\ libSystems' = libSystems
       ELSE /\ libLast' = [op |-> "new", arg |-> <<>>, wasRunning |-> FALSE,
                           calls |-> << <<"blur_init", sys>> >>,
                           result |-> <<"Ok", sys>>]
            /\ libSystems' = libSystems \cup {sys}
    /\ UNCHANGED <<libWindows, libRunning, winState, winParent, lateCalls,
                   nullCalls>>

\* BlurSystem::new(), blur_init returning sys and, on failure,
\* blur_get_last_error returning err.
BlurSystem_new(sys, err) ==
    /\ NativeInit(sys)
    /\ IF sys = Null
       THEN /\ libLast' =
                 [op |-> "new", arg |-> <<>>, wasRunning |-> FALSE,
                  calls |-> << <<"blur_init", sys>>,
                               <<"blur_get_last_error", CStrPtr(err)>> >>,
                  result |-> <<"Err",
                               IF IsSome(err) THEN Unwrap(err)
                               ELSE "Failed to initialize blur system">>]
            /\ libSystems' = libSystems
       ELSE /\ libLast' = [op |-> "new", arg |-> <<>>, wasRunning |-> FALSE,
                           calls |-> << <<"blur_init", sys>> >>,
                           result |-> <<"Ok", sys>>]
            /\ libSystems' = libSystems \cup {sys}
    /\ UNCHANGED <<libWindows, libRunning, winState, winParent, lateCalls,
                   nullCalls>>

\* create_window without its null check: a BlurWindow is built around
\* whatever blur_create_window returned.
BlurSystem_create_window_NoNullCheck(s, window) ==
    /\ NativeCreateWindow(s, window)
    /\ libLast' = [op |-> "create_window", arg |-> <<>>,
                   wasRunning |-> FALSE,
                   calls |-> << <<"blur_create_window", window>> >>,
                   result |-> <<"Ok", window>>]
    /\ libWindows' = libWindows \cup {window}
    /\ UNCHANGED <<libSystems, libRunning, sysState, lateCalls, nullCalls>>

\* BlurSystem::create_window(&self, ..) on the value owning handle s,
\* blur_create_window returning window.
BlurSystem_create_window(s, window) ==
    /\ NativeCreateWindow(s, window)
    /\ nullCalls' = IF s = Null THEN nullCalls \cup {"blur_create_window"}
                    ELSE nullCalls
    /\ lateCalls' = IF s \in SystemHandles /\ sysState[s] = "shutdown"
                    THEN lateCalls \cup {<<"blur_create_window", s>>}
                    ELSE lateCalls
    /\ IF window = Null
       THEN /\ libLast' = [op |-> "create_window", arg |-> <<>>,
                   wasRunning |-> FALSE,
                           calls |-> << <<"blur_create_window", window>> >>,
                           result |-> <<"Err", "Failed to create blur window">>]
            /\ libWindows' = libWindows
       ELSE /\ libLast' = [op |-> "create_window", arg |-> <<>>,
                   wasRunning |-> FALSE,
                           calls |-> << <<"blur_create_window", window>> >>,
                           result |-> <<"Ok", window>>]
            /\ libWindows' = libWindows \cup {window}
    /\ UNCHANGED <<libSystems, libRunning, sysState>>

\* A BlurWindow method that makes the one native call fn(self.handle, ..),
\* which returns code.
WindowCall(op, fn, w, arg, code) ==
    /\ NoteWindowCalls(<< <<fn, w>> >>)
    /\ libLast' = [op |-> op, arg |-> arg, wasRunning |-> w \in libRunning,
                   calls |-> << <<fn, w>> >>, result |-> CodeResult(code)]
    /\ UNCHANGED <<libSystems, libWindows, sysState, winState, winParent>>

\* BlurWindow::start(&self)
BlurWindow_start(w, code) ==
    /\ WindowCall("start", "blur_start", w, <<>>, code)
    /\ libRunning' = IF code = Ok THEN libRunning \cup {w} ELSE libRunning

\* BlurWindow::stop(&self)
BlurWindow_stop(w, code) ==
    /\ WindowCall("stop", "blur_stop", w, <<>>, code)
    /\ libRunning' = IF code = Ok THEN libRunning \ {w} ELSE libRunning

\* BlurWindow::set_preset(&self, preset)
BlurWindow_set_preset(w, preset, code) ==
    /\ WindowCall("set_preset", "blur_set_preset", w, <<>>, code)
    /\ libRunning' = libRunning

\* A conversion that looks for the terminator in the first byte only.
CStringNew_FirstByteOnly(json) ==
    IF Len(json) > 0 /\ json[1] = NUL THEN None ELSE Some(json)

\* CString::new(json) fails when json holds a NUL byte.
CStringNew(json) ==
    IF \E i \in 1..Len(json) : json[i] = NUL THEN None ELSE Some(json)

\* BlurWindow::set_pipeline(&self, json)
BlurWindow_set_pipeline(w, json, code) ==
    IF CStringNew(json) = None
    THEN /\ libLast' = [op |-> "set_pipeline", arg |-> json,
                        wasRunning |-> w \in libRunning, calls |-> <<>>,
                        result |-> <<"Err", InvalidParameter>>]
         /\ UNCHANGED <<ownerVars, nativeVars>>
    ELSE /\ WindowCall("set_pipeline", "blur_set_pipeline", w, json, code)
         /\ libRunning' = libRunning

\* BlurWindow::get_fps(&self)
BlurWindow_get_fps(w) ==
    /\ NoteWindowCalls(<< <<"blur_get_fps", w>> >>)
    /\ libLast' = [op |-> "get_fps", arg |-> <<>>,
                   wasRunning |-> w \in libRunning,
                   calls |-> << <<"blur_get_fps", w>> >>, result |-> <<"Fps">>]
    /\ UNCHANGED <<ownerVars, sysState, winState, winParent>>

\* impl Drop for BlurSystem: the value owning handle s is dropped.
Drop_BlurSystem(s) ==
    /\ NativeShutdown(s)
    /\ libSystems' = libSystems \ {s}
    /\ libLast' = [op |-> "drop_system", arg |-> <<>>, wasRunning |-> FALSE,
                   calls |-> << <<"blur_shutdown", s>> >>,
                   result |-> <<"Unit">>]
    /\ UNCHANGED <<libWindows, libRunning, winState, winParent>>

\* impl Drop for BlurWindow: the value owning handle w is dropped.
Drop_BlurWindow(w) ==
    /\ NativeDestroyWindow(w)
    /\ libWindows' = libWindows \ {w}
    /\ libRunning' = libRunning \ {w}
    /\ libLast' = [op |-> "drop_window", arg |-> <<>>,
                   wasRunning |-> w \in libRunning,
                   calls |-> << <<"blur_destroy_window", w>> >>,
                   result |-> <<"Unit">>]
    /\ UNCHANGED <<libSystems, sysState, winParent>>


\* ---- a client of the library: any sequence of calls the public API
\* ---- permits on values it owns, dropping them in any order

NoCall ==
    [op |-> "none", arg |-> <<>>, wasRunning |-> FALSE, calls |-> <<>>,
     result |-> <<"none">>]

\* The client is not inside a call: the previous call's result has been
\* received.
ClientReady ==
    /\ mainPc = "off"
    /\ libLast = NoCall

\* The client receives the result of the call it made.
Client_Return ==
    /\ mainPc = "off"
    /\ libLast # NoCall
    /\ libLast' = NoCall
    /\ UNCHANGED <<shellVars, nativeVars, ownerVars, mainVars>>

Client_New ==
    /\ ClientReady
    /\ \E sys \in blur_init_results, err \in blur_get_last_error_results :
          BlurSystem_new(sys, err)
    /\ UNCHANGED <<shellVars, mainVars>>

Client_CreateWindow ==
    /\ ClientReady
    /\ \E s \in libSystems, window \in blur_create_window_results :
          BlurSystem_create_window(s, window)
    /\ UNCHANGED <<shellVars, mainVars>>

Client_Start ==
    /\ ClientReady
    /\ \E w \in libWindows, code \in BlurErrorCode : BlurWindow_start(w, code)
    /\ UNCHANGED <<shellVars, mainVars>>

Client_Stop ==
    /\ ClientReady
    /\ \E w \in libWindows, code \in BlurErrorCode : BlurWindow_stop(w, code)
    /\ UNCHANGED <<shellVars, mainVars>>

Client_SetPreset ==
    /\ ClientReady
    /\ \E w \in libWindows, preset \in BlurQualityPreset,
          code \in BlurErrorCode : BlurWindow_set_preset(w, preset, code)
    /\ UNCHANGED <<shellVars, mainVars>>

Client_SetPipeline ==
    /\ ClientReady
    /\ \E w \in libWindows, json \in JsonStrings, code \in BlurErrorCode :
          BlurWindow_set_pipeline(w, json, code)
    /\ UNCHANGED <<shellVars, mainVars>>

Client_GetFps ==
    /\ ClientReady
    /\ \E w \in libWindows : BlurWindow_get_fps(w)
    /\ UNCHANGED <<shellVars, mainVars>>

Client_DropSystem ==
    /\ ClientReady
    /\ \E s \in libSystems : Drop_BlurSystem(s)
    /\ UNCHANGED <<shellVars, mainVars>>

Client_DropWindow ==
    /\ ClientReady
    /\ \E w \in libWindows : Drop_BlurWindow(w)
    /\ UNCHANGED <<shellVars, mainVars>>

\* ---- examples/basic.rs: main

\* for i in 1..=5
FpsPolls == 5

\* let system = BlurSystem::new()?;
Main_New ==
    /\ mainPc = "new"
    /\ \E sys \in blur_init_results, err \in blur_get_last_error_results :
          /\ BlurSystem_new(sys, err)
          /\ IF sys = Null
             THEN /\ mainRet' = "Err"
                  /\ mainPc' = "done"
                  /\ mainSystem' = mainSystem
             ELSE /\ mainRet' = mainRet
                  /\ mainPc' = "create"
                  /\ mainSystem' = Some(sys)
    /\ UNCHANGED <<shellVars, mainWindow, mainI>>

\* let window = system.create_window(HWND::default(), 200, 200, 600, 450)?;
Main_CreateWindow ==
    /\ mainPc = "create"
    /\ \E window \in blur_create_window_results :
          /\ BlurSystem_create_window(Unwrap(mainSystem), window)
          /\ IF window = Null
             THEN /\ mainRet' = "Err"
                  /\ mainPc' = "drop_system"
                  /\ mainWindow' = mainWindow
             ELSE /\ mainRet' = mainRet
                  /\ mainPc' = "start"
                  /\ mainWindow' = Some(window)
    /\ UNCHANGED <<shellVars, mainSystem, mainI>>

\* window.start().map_err(..)?;
Main_Start ==
    /\ mainPc = "start"
    /\ \E code \in BlurErrorCode :
          /\ BlurWindow_start(Unwrap(mainWindow), code)
          /\ IF code = Ok
             THEN /\ mainRet' = mainRet
                  /\ mainPc' = "loop"
                  /\ mainI' = 1
             ELSE /\ mainRet' = "Err"
                  /\ mainPc' = "drop_window"
                  /\ mainI' = mainI
    /\ UNCHANGED <<shellVars, mainSystem, mainWindow>>

\* for i in 1..=5 { .. window.get_fps() .. }
Main_GetFps ==
    /\ mainPc = "loop"
    /\ BlurWindow_get_fps(Unwrap(mainWindow))
    /\ IF mainI < FpsPolls
       THEN /\ mainI' = mainI + 1
            /\ mainPc' = mainPc
       ELSE /\ mainI' = mainI
            /\ mainPc' = "stop"
    /\ UNCHANGED <<shellVars, mainSystem, mainWindow, mainRet>>

\* window.stop().map_err(..)?;  ..  Ok(())
Main_Stop ==
    /\ mainPc = "stop"
    /\ \E code \in BlurErrorCode :
          /\ BlurWindow_stop(Unwrap(mainWindow), code)
          /\ mainRet' = IF code = Ok THEN "Ok" ELSE "Err"
    /\ mainPc' = "drop_window"
    /\ UNCHANGED <<shellVars, mainSystem, mainWindow, mainI>>

\* main returns: its locals are dropped in reverse order of declaration,
\* `window` first ..
Main_DropWindow ==
    /\ mainPc = "drop_window"
    /\ Drop_BlurWindow(Unwrap(mainWindow))
    /\ mainWindow' = None
    /\ mainPc' = "drop_system"
    /\ UNCHANGED <<shellVars, mainSystem, mainI, mainRet>>

\* .. then `system`.
Main_DropSystem ==
    /\ mainPc = "drop_system"
    /\ Drop_BlurSystem(Unwrap(mainSystem))
    /\ mainSystem' = None
    /\ mainPc' = "done"
    /\ UNCHANGED <<shellVars, mainWindow, mainI, mainRet>>

\* The library is used either by the example's main or by a client.
InitLib ==
    /\ ShellInit
    /\ NativeInitState
    /\ libSystems = {}
    /\ libWindows = {}
    /\ libRunning = {}
    /\ libLast = [op |-> "none", arg |-> <<>>, wasRunning |-> FALSE, calls |-> <<>>,
                result |-> <<"none">>]
    /\ mainPc \in {"off", "new"}
    /\ mainSystem = None
    /\ mainWindow = None
    /\ mainI = 0
    /\ mainRet = "none"

NextLib ==
    \/ Client_Return
    \/ Client_New
    \/ Client_CreateWindow
    \/ Client_Start
    \/ Client_Stop
    \/ Client_SetPreset
    \/ Client_SetPipeline
    \/ Client_GetFps
    \/ Client_DropSystem
    \/ Client_DropWindow
    \/ Main_New
    \/ Main_CreateWindow
    \/ Main_Start
    \/ Main_GetFps
    \/ Main_Stop
    \/ Main_DropWindow
    \/ Main_DropSystem

SpecLib == InitLib /\ [][NextLib]_vars


\* ------------------------------------------------------------ properties

NativeWindowFns ==
    {"blur_start", "blur_stop", "blur_destroy_window", "blur_get_fps",
     "blur_set_effect_type", "blur_set_strength", "blur_set_blur_param",
     "blur_set_tint_color", "blur_set_noise_intensity",
     "blur_set_noise_scale", "blur_set_noise_speed", "blur_set_noise_type",
     "blur_set_rain_intensity", "blur_set_rain_drop_speed",
     "blur_set_rain_refraction", "blur_set_rain_trail_length",
     "blur_set_rain_drop_size"}

\* C1: in the shell, under every interleaving of the six commands, no native
\* call is issued on a window handle on which blur_destroy_window has
\* already been called.
C1_NoCallAfterDestroy ==
    \A c \in lateCalls : c[1] \notin NativeWindowFns

\* C1 witness: a window has been destroyed, and afterwards an update command
\* has issued native setter calls while a stop_blur waits for the guard.
C1_Witness ==
    \E t \in Threads, u \in Threads :
        /\ pc[t] = "update_ret"
        /\ calls[t] # <<>>
        /\ pc[u] = "stop_lock"
        /\ \E w \in WindowHandles : winState[w] = "destroyed"

\* C2: whenever the window mutex is not held, the window slot holds Some(w)
\* exactly for the native windows w that are created and not destroyed: the
\* slot never holds a destroyed handle and at most one window is live.
C2_SlotIsTheLiveWindow ==
    windowMutex = None =>
        \A w \in WindowHandles : (windowSlot = Some(w)) <=> (winState[w] = "live")

\* C2 witness: the mutex is free, a second session is in the slot and the
\* first one has been destroyed, while two commands are being dispatched.
C2_Witness ==
    /\ windowMutex = None
    /\ IsSome(windowSlot)
    /\ \E w \in WindowHandles : winState[w] = "destroyed"
    /\ \A t \in Threads : pc[t] # "idle"

\* C3: in the library, blur_shutdown is never called on a system handle
\* while a window created from that system is not yet destroyed.
C3_WindowDestroyedBeforeSystem ==
    \A w \in WindowHandles :
        winState[w] = "live" => sysState[winParent[w]] # "shutdown"

\* C4: whenever a native call issued by a command returned a non-Ok code,
\* the command reports a failure to its caller.
C4_NativeErrorReported ==
    \A t \in Threads :
        (pc[t] \in RetPcs /\ failed[t]) => result[t] = "Err"

\* C5 as claimed: two start_blur invocations in a row, the first finding the
\* slot empty, make exactly one blur_create_window call between them,
\* whatever the native calls of the first returned.
C5_ExactlyOneCreate ==
    \A t \in Threads :
        (pc[t] = "start_ret" /\ IsSome(prevStart) /\ Unwrap(prevStart).empty)
            => Unwrap(prevStart).n + Cardinality(CreateCalls(calls[t])) = 1

\* C5 as amended: two start_blur invocations in a row make exactly one
\* blur_create_window call between them when the first one's
\* blur_create_window call returned a window.
C5_OneCreateAfterCreated ==
    \A t \in Threads :
        (pc[t] = "start_ret" /\ IsSome(prevStart) /\ Unwrap(prevStart).created)
            => Unwrap(prevStart).n + Cardinality(CreateCalls(calls[t])) = 1

\* C5 witness: a second start_blur is about to return Ok after a first one
\* that created a window.
C5_Witness ==
    \E t \in Threads :
        /\ pc[t] = "start_ret"
        /\ IsSome(prevStart)
        /\ Unwrap(prevStart).created
        /\ result[t] = "Ok"

\* C6: start_blur that finds a session in the window slot returns Ok, makes
\* no native call (none for a supplied effect selector either) and leaves
\* both slots as it found them.
C6_StartOnSessionIsNoOp ==
    \A t \in Threads :
        (pc[t] = "start_ret" /\ IsSome(snap[t][2])) =>
            /\ result[t] = "Ok"
            /\ calls[t] = <<>>
            /\ <<sysSlot, windowSlot>> = snap[t]

\* C6 witness: start_blur with an effect selector has found a session.
C6_Witness ==
    \E t \in Threads :
        /\ pc[t] = "start_ret"
        /\ IsSome(snap[t][2])
        /\ "effect_type" \in args[t]

\* C7: stop_blur that finds a session stops it, destroys it and leaves the
\* slot empty; stop_blur that finds the slot empty makes no native call and
\* leaves both slots as they were.  Either way the slot ends empty, so a
\* second stop_blur is the no-op case.
C7_StopIdempotent ==
    \A t \in Threads :
        pc[t] = "stop_ret" =>
            /\ windowSlot = None
            /\ sysSlot = snap[t][1]
            /\ IF IsSome(snap[t][2])
               THEN /\ calls[t] = << <<"blur_stop", Unwrap(snap[t][2])>>,
                                     <<"blur_destroy_window", Unwrap(snap[t][2])>> >>
                    /\ winState[Unwrap(snap[t][2])] = "destroyed"
               ELSE calls[t] = <<>>

\* C7 witness: a stop_blur finds the slot empty after an earlier stop_blur
\* destroyed the only window created so far.
C7_Witness ==
    \E t \in Threads :
        /\ pc[t] = "stop_ret"
        /\ snap[t][2] = None
        /\ \E w \in WindowHandles : winState[w] = "destroyed"
        /\ \A w \in WindowHandles : winState[w] # "live"


ReleaseFns == {"blur_shutdown", "blur_destroy_window"}

\* C8: in the library a system or window handle is live exactly as long as
\* the value that acquired it is owned, so dropping the value releases it
\* once; no handle is released twice, no release call is made for a null
\* handle, no value wraps a null handle, and when the example's main has
\* returned (on any path) nothing it acquired is still live.
C8_ReleasedExactlyOnce ==
    /\ \A s \in SystemHandles : (sysState[s] = "live") <=> (s \in libSystems)
    /\ \A w \in WindowHandles : (winState[w] = "live") <=> (w \in libWindows)
    /\ libSystems \subseteq SystemHandles
    /\ libWindows \subseteq WindowHandles
    /\ \A c \in lateCalls : c[1] \notin ReleaseFns
    /\ nullCalls \cap ReleaseFns = {}
    /\ mainPc = "done" =>
          /\ \A s \in SystemHandles : sysState[s] # "live"
          /\ \A w \in WindowHandles : winState[w] # "live"

\* C8 witness: the example's main has returned early because start failed,
\* after releasing the window and then the system it had acquired.
C8_Witness ==
    /\ mainPc = "done"
    /\ mainRet = "Err"
    /\ mainI = 0
    /\ \E w \in WindowHandles : winState[w] = "destroyed"
    /\ \E s \in SystemHandles : sysState[s] = "shutdown"

\* C9: in the shell, once the application has left run() and its state is
\* gone, no system context that blur_init handed out is still initialized.
C9_SystemShutDownAtExit ==
    exited => \A s \in SystemHandles : sysState[s] # "live"

\* The program points of start_blur between its decision to create a
\* session and the publication of the window in the slot.
StartCritical ==
    {"start_init", "start_create", "start_start", "start_effect",
     "start_publish"}

\* C10: while a start_blur is between lazy initialization and slot
\* publication, a step of any other thread neither changes the system slot
\* or the window slot nor reads them (a read records a snapshot).
C10_StartIsAtomic ==
    [][\A t \in Threads :
          (pc[t] \in StartCritical /\ pc'[t] = pc[t]) =>
              /\ sysSlot' = sysSlot
              /\ windowSlot' = windowSlot
              /\ snap' = snap]_vars

\* C10 witness: a start_blur has initialized the system lazily and not yet
\* created the window, while another command waits for the window guard.
C10_Witness ==
    \E t \in Threads, u \in Threads :
        /\ pc[t] = "start_create"
        /\ snap[t][1] = None
        /\ IsSome(sysSlot)
        /\ pc[u] \in {"stop_lock", "update_lock", "fps_lock"}


\* C11: start() on a window session that is already Running is a no-op that
\* returns success: it issues no native call.
C11_StartOnRunningIsNoOp ==
    (libLast.op = "start" /\ libLast.wasRunning) =>
        /\ libLast.calls = <<>>
        /\ libLast.result = <<"Ok">>


\* C12: no native call other than blur_init is ever made with a null handle
\* argument: no system or window value holds a null handle, so no operation
\* (create_window, start, stop, set_preset, set_pipeline, get_fps, drop) can
\* be attempted against one.
C12_NoNullHandleCall ==
    /\ nullCalls = {}
    /\ Null \notin libSystems
    /\ Null \notin libWindows
    /\ \A i \in 1..Len(libLast.calls) :
          libLast.calls[i][1] \notin {"blur_init", "blur_create_window",
                                     "blur_get_last_error"}
             => libLast.calls[i][2] # Null

\* C12 witness: blur_create_window returned a null handle to a client that
\* owns no window; create_window reported the failure and built no value.
C12_Witness ==
    /\ libLast.op = "create_window"
    /\ libLast.calls = << <<"blur_create_window", Null>> >>
    /\ libLast.result[1] = "Err"
    /\ libWindows = {}
    /\ libSystems # {}


\* C13: when the window slot is empty, update_blur_parameters,
\* update_noise_parameters, update_rain_parameters and get_blur_fps make no
\* native call and leave both slots as they found them, whatever arguments
\* are supplied; get_blur_fps then returns 0.0 and the update commands
\* return normally.
C13_EmptySlotNoCalls ==
    \A t \in Threads :
        (pc[t] \in {"update_ret", "fps_ret"} /\ snap[t][2] = None) =>
            /\ calls[t] = <<>>
            /\ ~failed[t]
            /\ sysSlot = snap[t][1]
            /\ windowSlot = None
            /\ pc[t] = "fps_ret" => result[t] = "Zero"
            /\ pc[t] = "update_ret" => result[t] = "Unit"

\* C13 witness: update_rain_parameters, with every argument supplied, has
\* run to its return on an empty window slot.
C13_Witness ==
    \E t \in Threads :
        /\ pc[t] = "update_ret"
        /\ cmd[t] = "update_rain_parameters"
        /\ args[t] = Params("update_rain_parameters")
        /\ snap[t][2] = None
        /\ calls[t] = <<>>


\* How many of the calls cs are calls of fn on window w.
CallCount(cs, fn, w) ==
    Cardinality({i \in 1..Len(cs) : cs[i] = <<fn, w>>})

\* C14 as stated: with a session active, for every update command and every
\* combination of supplied and omitted arguments, the setter of an argument
\* is called exactly once if the argument is supplied and not at all if it
\* is omitted, min_size and max_size included.
C14_SetterPerArgument ==
    \A t \in Threads :
        (pc[t] = "update_ret" /\ IsSome(snap[t][2])) =>
            \A p \in Params(cmd[t]) :
                CallCount(calls[t], SetterOf(cmd[t], p), Unwrap(snap[t][2]))
                    = IF p \in args[t] THEN 1 ELSE 0

\* C14 amended: with a session active, every argument other than the two
\* drop-size bounds has its setter called exactly once on the session's
\* window if it is supplied and not at all if it is omitted;
\* blur_set_rain_drop_size is called exactly once if min_size and max_size
\* are both supplied and not at all if either is omitted; no other native
\* call is made.
C14_SetterPerProperty ==
    \A t \in Threads :
        (pc[t] = "update_ret" /\ IsSome(snap[t][2])) =>
            LET w == Unwrap(snap[t][2])
                single == Params(cmd[t]) \ {"min_size", "max_size"}
                both == {"min_size", "max_size"} \subseteq args[t]
            IN  /\ \A p \in single :
                      CallCount(calls[t], SetterOf(cmd[t], p), w)
                          = IF p \in args[t] THEN 1 ELSE 0
                /\ CallCount(calls[t], "blur_set_rain_drop_size", w)
                      = IF both THEN 1 ELSE 0
                /\ Len(calls[t]) = Cardinality(args[t] \cap single)
                                       + (IF both THEN 1 ELSE 0)

\* C14 witness: with a session active, update_rain_parameters was given
\* min_size and intensity but no max_size; it set the intensity and nothing
\* else.
C14_Witness ==
    \E t \in Threads :
        /\ pc[t] = "update_ret"
        /\ cmd[t] = "update_rain_parameters"
        /\ IsSome(snap[t][2])
        /\ args[t] = {"min_size", "intensity"}
        /\ calls[t] = << <<"blur_set_rain_intensity", Unwrap(snap[t][2])>> >>


\* C15: BlurSystem::new makes exactly one blur_init call. If that returns a
\* null handle, new asks for the last error and returns a failure carrying
\* the engine's string when the pointer is non-null and the generic message
\* otherwise, and builds no BlurSystem; so blur_shutdown and
\* blur_create_window are never called with the null handle. If it returns
\* a handle, new returns the BlurSystem that owns it.
C15_NewFailsOnNullHandle ==
    /\ Null \notin libSystems
    /\ "blur_shutdown" \notin nullCalls
    /\ "blur_create_window" \notin nullCalls
    /\ libLast.op = "new" =>
          /\ CallCount(libLast.calls, "blur_init", libLast.calls[1][2]) = 1
          /\ \A i \in 2..Len(libLast.calls) :
                libLast.calls[i][1] # "blur_init"
          /\ IF libLast.calls[1][2] = Null
             THEN /\ Len(libLast.calls) = 2
                  /\ libLast.calls[2][1] = "blur_get_last_error"
                  /\ libLast.result[1] = "Err"
                  /\ libLast.result[2] =
                        IF libLast.calls[2][2] # Null THEN "engine error"
                        ELSE "Failed to initialize blur system"
             ELSE /\ Len(libLast.calls) = 1
                  /\ libLast.result = <<"Ok", libLast.calls[1][2]>>
                  /\ libLast.calls[1][2] \in libSystems

\* C15 witness: blur_init returned null and blur_get_last_error a string;
\* new failed with that string and no BlurSystem exists.
C15_Witness ==
    /\ libLast.op = "new"
    /\ libLast.calls[1] = <<"blur_init", Null>>
    /\ libLast.calls[2][2] # Null
    /\ libLast.result = <<"Err", "engine error">>
    /\ libSystems = {}


\* C16: set_pipeline called with a string that holds a NUL byte at any
\* position returns InvalidParameter and makes no native call; with a string
\* that holds none it makes exactly one blur_set_pipeline call, on its own
\* handle.
C16_PipelineRejectsNul ==
    libLast.op = "set_pipeline" =>
        IF \E i \in 1..Len(libLast.arg) : libLast.arg[i] = NUL
        THEN /\ libLast.calls = <<>>
             /\ libLast.result = <<"Err", InvalidParameter>>
        ELSE /\ Len(libLast.calls) = 1
             /\ libLast.calls[1][1] = "blur_set_pipeline"
             /\ libLast.calls[1][2] \in libWindows

\* C16 witness: set_pipeline was handed a string whose last byte, and no
\* other, is NUL, and rejected it.
C16_Witness ==
    /\ libLast.op = "set_pipeline"
    /\ Len(libLast.arg) = MaxJsonLen
    /\ libLast.arg[MaxJsonLen] = NUL
    /\ \A i \in 1..(MaxJsonLen - 1) : libLast.arg[i] # NUL
    /\ libLast.calls = <<>>
    /\ libLast.result = <<"Err", InvalidParameter>>


\* The calls among cs that were made on window w.
CallsOn(cs, w) ==
    SelectSeq(cs, LAMBDA c : c[1] # "blur_init" /\ c[2] = w)

\* C17: in the shell, the native calls issued on any one window handle
\* follow the protocol order: blur_create_window, then blur_start, then the
\* optional blur_set_effect_type of start_blur, then any number of setter
\* and blur_get_fps calls, then blur_stop, then blur_destroy_window. The
\* handle is in the window slot only after blur_start and the optional
\* effect-selector call have been made, and a handle is destroyed only
\* after blur_stop.
C17_ProtocolOrder ==
    /\ \A w \in WindowHandles :
          /\ proto[w] # "violated"
          /\ windowSlot = Some(w) => proto[w] = "started"
          /\ winState[w] = "destroyed" <=> proto[w] = "destroyed"
    /\ \A t \in Threads :
          /\ pc[t] \in {"start_start", "start_effect", "start_publish"} =>
                /\ windowSlot = None
                /\ proto[Unwrap(local[t])] =
                      IF pc[t] = "start_start" THEN "created" ELSE "started"
          /\ (pc[t] = "start_ret" /\ result[t] = "Ok" /\ snap[t][2] = None) =>
                LET w == Unwrap(local[t]) IN
                    /\ windowSlot = Some(w)
                    /\ CallsOn(calls[t], w) =
                          << <<"blur_create_window", w>>, <<"blur_start", w>> >>
                          \o (IF "effect_type" \in args[t]
                              THEN << <<"blur_set_effect_type", w>> >>
                              ELSE <<>>)
          /\ (pc[t] = "stop_ret" /\ IsSome(snap[t][2])) =>
                proto[Unwrap(snap[t][2])] \in {"stopped", "destroyed"}

\* C17 witness: one window has been through the whole protocol and is
\* destroyed; a second one is in the slot, and an update command has just
\* made setter calls on it.
C17_Witness ==
    \E w1 \in WindowHandles, w2 \in WindowHandles, t \in Threads :
        /\ proto[w1] = "destroyed"
        /\ windowSlot = Some(w2)
        /\ proto[w2] = "started"
        /\ pc[t] = "update_ret"
        /\ Len(CallsOn(calls[t], w2)) > 1


CalledFns(cs) == {cs[i][1] : i \in 1..Len(cs)}

\* C19: failure handling of start_blur. If blur_init returns null,
\* start_blur returns an error, makes no further native call and leaves both
\* slots empty. If blur_create_window returns null, it returns an error,
\* makes no blur_start or setter call, leaves the window slot empty and
\* keeps the system handle in the system slot. Across any sequence of
\* commands blur_init succeeds at most once: once the system slot holds a
\* handle it holds that handle for good, and every window is created on it.
C19_StartFailureHandling ==
    /\ \A t \in Threads :
          (pc[t] = "start_ret" /\ snap[t][2] = None) =>
              /\ calls[t] # <<>>
              /\ snap[t][1] = None <=> calls[t][1][1] = "blur_init"
              /\ \A i \in 2..Len(calls[t]) : calls[t][i][1] # "blur_init"
              /\ calls[t][1] = <<"blur_init", Null>> =>
                    /\ Len(calls[t]) = 1
                    /\ result[t] = "Err"
                    /\ sysSlot = None
                    /\ windowSlot = None
              /\ <<"blur_create_window", Null>> \in
                        {calls[t][i] : i \in 1..Len(calls[t])} =>
                    /\ CalledFns(calls[t]) \subseteq
                          {"blur_init", "blur_create_window"}
                    /\ result[t] = "Err"
                    /\ windowSlot = None
                    /\ IsSome(sysSlot)
                    /\ IsSome(snap[t][1]) => sysSlot = snap[t][1]
                    /\ snap[t][1] = None => sysSlot = Some(calls[t][1][2])
    /\ Cardinality({s \in SystemHandles : sysState[s] # "free"}) <= 1
    /\ \A s \in SystemHandles :
          sysState[s] # "free" <=> sysSlot = Some(s)
    /\ \A w \in WindowHandles :
          winState[w] # "free" => sysSlot = Some(winParent[w])

\* C19 witness: with a system handle in the slot from an earlier command,
\* start_blur was refused a window; it made that one call, returns an error
\* and the system handle is still in the slot.
C19_Witness ==
    \E t \in Threads :
        /\ pc[t] = "start_ret"
        /\ IsSome(snap[t][1])
        /\ calls[t] = << <<"blur_create_window", Null>> >>
        /\ result[t] = "Err"
        /\ sysSlot = snap[t][1]
        /\ windowSlot = None

====
